---------------------------- MODULE Spec2Model ----------------------------
(***************************************************************************)
(* Model of the web API (src/app.py) and of the interactive flow           *)
(* (src/cli.py) of the downloader.                                         *)
(*                                                                         *)
(* Text is modelled as a sequence of tokens (a token is a TLA+ string): a  *)
(* url, a quality selector, an output line of yt-dlp and an argv element   *)
(* are all token sequences.  The whitespace token is " ".  str.strip,      *)
(* str.rstrip, str.lower, str.startswith, the "in" test and the progress   *)
(* regular expression are computed on the tokens.                          *)
(***************************************************************************)
EXTENDS Integers, Sequences, FiniteSets, TLC

VARIABLES
    handler,    \* entry point that ran: "idle", "get_formats", "progress", "cli"
    request,    \* request.args / JSON body of the HTTP request (<<>> if none)
    response,   \* [status, body] returned by the handler (<<>> if none yet)
    spawned,    \* every subprocess.run / subprocess.Popen call made: argv, outcome
    once,       \* what each run_cmd_once call returned (or raised)
    dirs,       \* directories created by safe_path
    spc,        \* position of the sse_stream generator
    cmd,        \* argv built by progress()
    procState,  \* the Popen child: "none", "running", "exited"
    procExit,   \* exit code of the child once it exited (-1 before)
    ret,        \* value returned by proc.wait() in sse_stream (-1 before)
    output,     \* lines read from proc.stdout so far
    events,     \* events yielded by sse_stream so far
    cpc,        \* position of the interactive flow (cli.py)
    cliArgs,    \* arguments of download_and_merge
    files,      \* files present in the working directory of cli.py
    cliResult   \* return value / exit status of the interactive flow

vars == <<handler, request, response, spawned, once, dirs, spc, cmd, procState,
          procExit, ret, output, events, cpc, cliArgs, files, cliResult>>

appVars == <<handler, request, response, spawned, once, dirs>>
streamVars == <<spc, cmd, procState, procExit, ret, output, events>>
cliVars == <<cpc, cliArgs, files, cliResult>>

-----------------------------------------------------------------------------
(* Bounds *)

MaxLines == 2      \* lines the child writes before it ends
MaxExit == 1       \* exit codes range over 0..MaxExit
MaxFormats == 2    \* descriptors in the "formats" list of the tool's JSON

-----------------------------------------------------------------------------
(* Python string helpers on token sequences *)

WS == " "

\* an optional value: <<>> is None / absent, <<v>> is the value v
None == << >>
Some(v) == <<v>>

\* str.lower on one token
LowerTok(t) ==
    CASE t = "LIST=" -> "list="
      [] t = "List=" -> "list="
      [] t = "/Playlist" -> "/playlist"
      [] t = "/PLAYLIST" -> "/playlist"
      [] t = "TRUE" -> "true"
      [] t = "True" -> "true"
      [] t = "Yes" -> "yes"
      [] t = "FALSE" -> "false"
      [] OTHER -> t

\* str.lower
Lower(s) == [i \in 1..Len(s) |-> LowerTok(s[i])]

RECURSIVE RStrip(_)
\* str.rstrip
RStrip(s) ==
    IF s # << >> /\ s[Len(s)] = WS THEN RStrip(SubSeq(s, 1, Len(s) - 1)) ELSE s

RECURSIVE LStrip(_)
\* str.lstrip
LStrip(s) ==
    IF s # << >> /\ s[1] = WS THEN LStrip(Tail(s)) ELSE s

\* str.strip
Strip(s) == LStrip(RStrip(s))

\* str.startswith
StartsWith(s, prefix) ==
    /\ Len(s) >= Len(prefix)
    /\ SubSeq(s, 1, Len(prefix)) = prefix

\* "sub in s" for a one-token sub
Contains(s, tok) == \E i \in 1..Len(s) : s[i] = tok

\* one entry of spawned
Call(argv, outcome) == [argv |-> argv, outcome |-> outcome]

\* mapping.get(key, default) on a record of optional values
Get(args, key, default) == IF args[key] = None THEN default ELSE args[key][1]

-----------------------------------------------------------------------------
(* app.py helpers *)

YT_DLP == <<"yt-dlp">>
FFMPEG == <<"ffmpeg">>

\* urllib.parse.unquote on one token
UnquoteTok(t) == IF t = "%20" THEN WS ELSE t

\* urllib.parse.unquote
unquote(s) == [i \in 1..Len(s) |-> UnquoteTok(s[i])]

Cwd == <<"/cwd">>

\* the path safe_path returns
safe_path(p) == IF p = << >> THEN Cwd ELSE Cwd \o <<"/">> \o p

\* the directories that exist after safe_path(p)
safe_path_dirs(p, ds) == IF p = << >> THEN ds ELSE ds \cup {safe_path(p)}

default_playlist_format == <<"bv*[height<=720]", "+", "ba/b[height<=720]">>

\* is_probably_playlist without the call of lower()
is_probably_playlist_cased(url) ==
    Contains(url, "list=") \/ Contains(url, "/playlist")

is_probably_playlist(url) ==
    LET u == Lower(url)
    IN  Contains(u, "list=") \/ Contains(u, "/playlist")

\* os.path.join(a, b)
PathJoin(a, b) == a \o <<"/">> \o b


-----------------------------------------------------------------------------
(* /progress: request handling (app.py 137-172) *)

\* request.args.get("is_playlist", "false").lower() in ("1", "true", "yes")
force_playlist(args) ==
    Lower(Get(args, "is_playlist", <<"false">>)) \in {<<"1">>, <<"true">>, <<"yes">>}

\* "if not url" (app.py 146)
MissingUrl(url) == url = << >>

\* MissingQuality with the check lost
MissingQualityUnchecked(quality) == FALSE

\* "if not quality" (app.py 157)
MissingQuality(quality) == quality = << >>

\* ResolveQuality with the test for the combinator lost
ResolveQualityAlwaysAppend(quality) == quality \o <<"+", "ba">>

\* the selector placed after -f for a single item (app.py 163-165)
ResolveQuality(quality) ==
    IF ~Contains(quality, "+") THEN quality \o <<"+", "ba">> ELSE quality

\* the argv built at app.py 149-172
BuildCmd(url, quality, download_path, playlist_mode) ==
    LET head == <<YT_DLP, <<"--newline">>>>
        sel == IF playlist_mode
               THEN <<<<"-f">>, default_playlist_format, <<"--yes-playlist">>>>
               ELSE <<<<"-f">>, ResolveQuality(quality), <<"--no-playlist">>>>
        out_tmpl == IF playlist_mode
                    THEN PathJoin(PathJoin(download_path, <<"%(playlist_title,channel)s">>),
                                  <<"%(title)s.%(ext)s">>)
                    ELSE PathJoin(download_path, <<"%(title)s.%(ext)s">>)
        ff == IF FFMPEG # << >> THEN <<<<"--ffmpeg-location">>, FFMPEG>> ELSE << >>
    IN  head \o sel \o ff \o <<<<"-o">>, out_tmpl, url>>

Json400(msg) == [status |-> 400, body |-> [error |-> msg]]

StreamResponse == [status |-> 200, body |-> [mimetype |-> "text/event-stream"]]

\* the handler progress(): validation, argv, and the Response wrapping the
\* not yet started generator
Progress(args) ==
    LET url == Strip(Get(args, "url", << >>))
        quality == Strip(Get(args, "quality", << >>))
        raw_path == unquote(Strip(Get(args, "download_path", << >>)))
        download_path == safe_path(raw_path)
        playlist_mode == force_playlist(args) \/ is_probably_playlist(url)
    IN  /\ handler = "idle"
        /\ handler' = "progress"
        /\ request' = args
        /\ dirs' = safe_path_dirs(raw_path, dirs)
        /\ IF MissingUrl(url)
           THEN /\ response' = Json400("Missing url")
                /\ UNCHANGED <<spc, cmd>>
           ELSE IF ~playlist_mode /\ MissingQuality(quality)
           THEN /\ response' = Json400("Missing quality (vfmt or vfmt+afmt) for single video")
                /\ UNCHANGED <<spc, cmd>>
           ELSE /\ response' = StreamResponse
                /\ cmd' = BuildCmd(url, quality, download_path, playlist_mode)
                /\ spc' = "created"
        /\ UNCHANGED <<spawned, once, procState, procExit, ret, output, events>>
        /\ UNCHANGED cliVars

-----------------------------------------------------------------------------
(* /progress: the output parser (app.py 175-221) *)

PctTokens == {"42.5%", "100%"}

\* float(m.group("pct")) as json.dumps prints it
PctFloat(t) == IF t = "42.5%" THEN "42.5" ELSE "100.0"

At(s, i) == IF i >= 1 /\ i <= Len(s) THEN s[i] ELSE ""

RECURSIVE SkipWs(_, _)
\* index of the first token at or after i that is not whitespace: \s*
SkipWs(s, i) == IF At(s, i) = WS THEN SkipWs(s, i + 1) ELSE i

RECURSIVE SkipWord(_, _)
\* index of the first token at or after i that is whitespace or the end: \S*
SkipWord(s, i) == IF i <= Len(s) /\ s[i] # WS THEN SkipWord(s, i + 1) ELSE i

\* progress_re.match(line): None, or the groups of the match
progress_re(line) ==
    LET p1 == SkipWs(line, 2)          \* pct
        p2 == SkipWs(line, p1 + 1)     \* of
        p3 == SkipWs(line, p2 + 1)     \* size
        e3 == SkipWord(line, p3)
        p4 == SkipWs(line, e3)         \* at
        p5 == SkipWs(line, p4 + 1)     \* speed
        e5 == SkipWord(line, p5)
        p6 == SkipWs(line, e5)         \* ETA
        p7 == SkipWs(line, p6 + 1)     \* eta
        e7 == SkipWord(line, p7)
    IN  IF /\ At(line, 1) = "[download]"
           /\ p1 > 2 /\ At(line, p1) \in PctTokens
           /\ p2 > p1 + 1 /\ At(line, p2) = "of"
           /\ p3 > p2 + 1 /\ e3 > p3
           /\ p4 > e3 /\ At(line, p4) = "at"
           /\ p5 > p4 + 1 /\ e5 > p5
           /\ p6 > e5 /\ At(line, p6) = "ETA"
           /\ p7 > p6 + 1 /\ e7 > p7
        THEN Some([pct |-> line[p1],
                   size |-> SubSeq(line, p3, e3 - 1),
                   speed |-> SubSeq(line, p5, e5 - 1),
                   eta |-> SubSeq(line, p7, e7 - 1)])
        ELSE None

RECURSIVE AfterFirst(_, _)
\* line.split(tok, 1)[-1]
AfterFirst(s, tok) ==
    IF s = << >> THEN << >>
    ELSE IF s[1] = tok THEN Tail(s) ELSE AfterFirst(Tail(s), tok)

SplitLast(s, tok) == IF Contains(s, tok) THEN AfterFirst(s, tok) ELSE s

Msg(status, message) == [status |-> status, message |-> message]

\* ParseLine with the [Merger] test moved before the others
ParseLineMergerFirst(raw) ==
    LET line == RStrip(raw)
        m == progress_re(line)
    IN  IF StartsWith(line, <<"[Merger]">>)
        THEN <<Msg("merging", Strip(line))>>
        ELSE IF m # None
        THEN <<[status |-> "downloading",
                percent |-> PctFloat(m[1].pct),
                size |-> m[1].size,
                speed |-> m[1].speed,
                eta |-> m[1].eta]>>
        ELSE IF StartsWith(line, <<"[download]", WS, "Destination:">>)
        THEN <<Msg("destination", Strip(SplitLast(line, "Destination:")))>>
        ELSE IF Contains(line, "has already been downloaded")
        THEN <<Msg("already", Strip(line))>>
        ELSE IF StartsWith(line, <<"[ExtractAudio]">>)
        THEN <<Msg("postprocess", Strip(line))>>
        ELSE IF StartsWith(line, <<"[youtube]">>) \/ StartsWith(line, <<"[info]">>)
        THEN <<Msg("info", Strip(line))>>
        ELSE IF StartsWith(line, <<"ERROR:">>)
        THEN <<Msg("error", Strip(line))>>
        ELSE << >>

\* the body of the for loop at app.py 194-221 for one raw line: the events
\* it yields (none or one)
ParseLine(raw) ==
    LET line == RStrip(raw)
        m == progress_re(line)
    IN  IF m # None
        THEN <<[status |-> "downloading",
                percent |-> PctFloat(m[1].pct),
                size |-> m[1].size,
                speed |-> m[1].speed,
                eta |-> m[1].eta]>>
        ELSE IF StartsWith(line, <<"[download]", WS, "Destination:">>)
        THEN <<Msg("destination", Strip(SplitLast(line, "Destination:")))>>
        ELSE IF Contains(line, "has already been downloaded")
        THEN <<Msg("already", Strip(line))>>
        ELSE IF StartsWith(line, <<"[Merger]">>)
        THEN <<Msg("merging", Strip(line))>>
        ELSE IF StartsWith(line, <<"[ExtractAudio]">>)
        THEN <<Msg("postprocess", Strip(line))>>
        ELSE IF StartsWith(line, <<"[youtube]">>) \/ StartsWith(line, <<"[info]">>)
        THEN <<Msg("info", Strip(line))>>
        ELSE IF StartsWith(line, <<"ERROR:">>)
        THEN <<Msg("error", Strip(line))>>
        ELSE << >>

-----------------------------------------------------------------------------
(* /progress: the generator sse_stream (app.py 179-231) *)

\* spc: "none"         no stream
\*      "created"      generator object made, not started
\*      "at_starting"  suspended at the yield of app.py 183
\*      "reading"      blocked in "for line in proc.stdout"
\*      "at_content"   suspended at a yield inside the for loop
\*      "at_terminal"  suspended at the yield of app.py 225 / 227
\*      "at_exc"       suspended at the yield of app.py 229 / 231
\*      "done"         generator returned
\*      "closing_wait" generator closed inside the with block: Popen.__exit__
\*                     closed the pipe and is blocked in wait()
\*      "closed"       generator closed by the consumer

ExitCodes == 0..MaxExit

\* outcomes of subprocess.Popen / subprocess.run starting the executable
LaunchOutcomes == {"ok", "FileNotFoundError", "OSError"}

\* the lines the child may write
Lines ==
    { <<"[download]", WS, WS, "42.5%", WS, "of", WS, "10.00MiB", WS, "at", WS,
        "1.00MiB/s", WS, "ETA", WS, "00:05">>,
      <<"[download]", WS, "100%", WS, "of", WS, "10.00MiB", WS, "at", WS,
        "1.00MiB/s", WS, "ETA", WS, "00:00", WS, "has already been downloaded">>,
      <<"[download]", WS, "Destination:", WS, "a.mp4", WS>>,
      <<"[download]", WS, "Destination:", WS, "has already been downloaded">>,
      <<"[Merger]", WS, "Merging formats into", WS, "a.mp4">>,
      <<"[Merger]", WS, "has already been downloaded">>,
      <<"[ExtractAudio]", WS, "Destination:", WS, "a.m4a">>,
      <<"[youtube]", WS, "a:", WS, "Downloading webpage">>,
      <<"[info]", WS, "a:", WS, "Downloading 1 format(s)">>,
      <<"ERROR:", WS, "unable to download">>,
      <<WS, "WARNING:", WS, "[youtube]", WS, "ERROR:">> }

send(event_dict) == <<event_dict>>

\* StreamStart with the starting event lost
StreamStartSilent ==
    /\ spc = "created"
    /\ spc' = "at_starting"
    /\ UNCHANGED <<cmd, procState, procExit, ret, output, events>>
    /\ UNCHANGED <<appVars, cliVars>>

\* first next(): runs to the yield of app.py 183
StreamStart ==
    /\ spc = "created"
    /\ events' = events \o send([status |-> "starting"])
    /\ spc' = "at_starting"
    /\ UNCHANGED <<cmd, procState, procExit, ret, output>>
    /\ UNCHANGED <<appVars, cliVars>>

\* next() after the starting event: subprocess.Popen(cmd, ...) at app.py 185
Launch(outcome) ==
    /\ spc = "at_starting"
    /\ spawned' = Append(spawned, Call(cmd, outcome))
    /\ CASE outcome = "ok" ->
              /\ procState' = "running"
              /\ spc' = "reading"
              /\ UNCHANGED events
         [] outcome = "FileNotFoundError" ->
              /\ events' = events \o send(Msg("error",
                      <<"[Errno 2] No such file or directory:", cmd[1][1]>>))
              /\ spc' = "at_exc"
              /\ UNCHANGED procState
         [] OTHER ->
              /\ events' = events \o send(Msg("error",
                      <<"PermissionError(13, 'Permission denied')">>))
              /\ spc' = "at_exc"
              /\ UNCHANGED procState
    /\ UNCHANGED <<handler, request, response, once, dirs>>
    /\ UNCHANGED <<cmd, procExit, ret, output>>
    /\ UNCHANGED cliVars

\* the child writes a line and the for loop of app.py 193 handles it
ReadLine(raw) ==
    /\ spc \in {"reading", "at_content"}
    /\ procState = "running"
    /\ Len(output) < MaxLines
    /\ output' = Append(output, raw)
    /\ events' = events \o ParseLine(raw)
    /\ spc' = IF ParseLine(raw) = << >> THEN "reading" ELSE "at_content"
    /\ UNCHANGED <<cmd, procState, procExit, ret>>
    /\ UNCHANGED <<appVars, cliVars>>

\* ExitEvent with the test of the exit code lost
ExitEventAlwaysFinished(code) == [status |-> "finished"]

\* the event yielded after proc.wait() (app.py 223-227)
ExitEvent(code) ==
    IF code = 0
    THEN [status |-> "finished"]
    ELSE Msg("error", <<"yt-dlp exited with code", ToString(code)>>)

\* the child ends: the for loop sees end of file and proc.wait() returns
ProcEnd(code) ==
    /\ spc \in {"reading", "at_content"}
    /\ procState = "running"
    /\ procState' = "exited"
    /\ procExit' = code
    /\ ret' = code
    /\ events' = events \o send(ExitEvent(code))
    /\ spc' = "at_terminal"
    /\ UNCHANGED <<cmd, output>>
    /\ UNCHANGED <<appVars, cliVars>>

\* next() after the last yield: the generator returns
StreamEnd ==
    /\ spc \in {"at_terminal", "at_exc"}
    /\ spc' = "done"
    /\ UNCHANGED <<cmd, procState, procExit, ret, output, events>>
    /\ UNCHANGED <<appVars, cliVars>>

\* what Popen.__exit__ does to a running child when GeneratorExit unwinds the
\* with block of app.py 185-192: it closes the pipe and waits; nothing in
\* sse_stream calls terminate() or kill()
CloseInsideWith(state) == IF state = "running" THEN "closing_wait" ELSE "closed"

\* the consumer goes away: close() on the generator suspended at a yield
Disconnect ==
    /\ spc \in {"at_starting", "at_content", "at_terminal", "at_exc"}
    /\ spc' = IF spc = "at_content" THEN CloseInsideWith(procState) ELSE "closed"
    /\ UNCHANGED <<cmd, procState, procExit, ret, output, events>>
    /\ UNCHANGED <<appVars, cliVars>>

\* the child left running by Disconnect ends by itself (it completes the
\* download, or fails); wait() in Popen.__exit__ returns
OrphanEnd(code) ==
    /\ spc = "closing_wait"
    /\ procState = "running"
    /\ procState' = "exited"
    /\ procExit' = code
    /\ spc' = "closed"
    /\ UNCHANGED <<cmd, ret, output, events>>
    /\ UNCHANGED <<appVars, cliVars>>

-----------------------------------------------------------------------------
(* /get_formats (app.py 19-39, 58-134) *)

\* A text written by the tool is [kind, msg, data]: kind "empty", "ws"
\* (whitespace only), "plain" (msg: something that is not JSON) or "json"
\* (data: the JSON object, a record of optional values).
Text(kind, msg, data) == [kind |-> kind, msg |-> msg, data |-> data]

EmptyText == Text("empty", "", None)

\* str.strip on a text
StripText(t) == IF t.kind = "ws" THEN EmptyText ELSE t

\* "a or b" on texts
OrText(a, b) == IF a.kind = "empty" THEN b ELSE a

\* run_cmd_once(cmd): the triple returned, or the exception that leaves it.
\* proc is what the child does when it could be started.
run_cmd_once(argv, outcome, proc) ==
    IF outcome = "ok"
    THEN [raised |-> "none", stdout |-> proc.stdout, stderr |-> proc.stderr,
          returncode |-> proc.returncode]
    ELSE IF outcome = "FileNotFoundError"
    THEN [raised |-> "none", stdout |-> EmptyText,
          stderr |-> Text("plain", "Command not found: " \o argv[1][1], None),
          returncode |-> 127]
    ELSE [raised |-> "PermissionError", stdout |-> EmptyText, stderr |-> EmptyText,
          returncode |-> -1]

\* human_bytes(n) on the sizes that occur in FormatPool
human_bytes(n) ==
    CASE n = 0 -> "0 B"
      [] n = 1024 -> "1.0 KB"
      [] n = 1048576 -> "1.0 MB"
      [] OTHER -> "?"

\* "x or 0" on an optional number
OrZero(x) == IF x = None THEN 0 ELSE x[1]

\* "a or b" on optional numbers
OrNum(a, b) == IF a = None \/ a = Some(0) THEN b ELSE a

Fmt(id, vcodec, acodec, height, fps, abr, filesize, approx) ==
    [format_id |-> id, vcodec |-> vcodec, acodec |-> acodec, height |-> height,
     fps |-> fps, abr |-> abr, ext |-> "mp4", filesize |-> filesize,
     filesize_approx |-> approx]

\* format descriptors the tool may report; a codec is absent (None), the
\* string "none", or a codec name
FormatPool ==
    { Fmt("137", Some("avc1"), Some("none"), Some(1080), Some(30), None, Some(1048576), None),
      Fmt("136", Some("avc1"), Some("none"), Some(720), Some(60), None, None, Some(1024)),
      Fmt("135", Some("vp9"), Some("none"), Some(720), None, None, None, None),
      Fmt("140", Some("none"), Some("mp4a"), None, None, Some(128), Some(1024), None),
      Fmt("139", Some("none"), Some("opus"), None, None, Some(48), None, None),
      Fmt("18", Some("avc1"), Some("mp4a"), Some(360), Some(30), Some(96), None, None),
      Fmt("sb0", Some("none"), Some("none"), Some(45), None, None, None, None),
      Fmt("x1", None, None, None, None, None, None, None),
      Fmt("x2", None, Some("none"), None, None, None, None, None),
      Fmt("x3", Some("none"), None, None, None, None, None, None),
      Fmt("x4", None, Some("mp4a"), None, None, None, None, None),
      Fmt("x5", Some("avc1"), None, Some(240), None, None, None, None) }

RECURSIVE SeqsUpTo(_, _)
\* the sequences over S of length at most n
SeqsUpTo(S, n) ==
    IF n = 0 THEN {<< >>}
    ELSE LET shorter == SeqsUpTo(S, n - 1)
         IN  shorter \cup {Append(q, x) : q \in shorter, x \in S}

\* the tests of app.py 120 and 122 (cli.py 45 and 47)
IsVideoOnly(f) == f.vcodec # Some("none") /\ f.acodec = Some("none")
IsAudioOnly(f) == f.acodec # Some("none") /\ f.vcodec = Some("none")

\* the dict "it" of app.py 110-119
Item(f) ==
    LET size == OrNum(f.filesize, f.filesize_approx)
    IN  [format_id |-> f.format_id, height |-> f.height, fps |-> f.fps,
         ext |-> f.ext, abr |-> f.abr, filesize |-> size,
         filesize_hr |-> IF size # None /\ size # Some(0)
                         THEN Some(human_bytes(size[1])) ELSE None]

RECURSIVE VideoItems(_)
\* the list video_formats after the loop of app.py 107-123
VideoItems(formats) ==
    IF formats = << >> THEN << >>
    ELSE (IF IsVideoOnly(formats[1]) THEN <<Item(formats[1])>> ELSE << >>)
         \o VideoItems(Tail(formats))

RECURSIVE AudioItems(_)
\* the list audio_formats after the loop of app.py 107-123
AudioItems(formats) ==
    IF formats = << >> THEN << >>
    ELSE (IF ~IsVideoOnly(formats[1]) /\ IsAudioOnly(formats[1])
          THEN <<Item(formats[1])>> ELSE << >>)
         \o AudioItems(Tail(formats))

\* sort keys of app.py 126-127, as pairs
VideoKey(x) == <<OrZero(x.height), OrZero(x.fps)>>
AudioKey(x) == <<OrZero(x.abr), 0>>

\* tuple comparison k1 >= k2
KeyGeq(k1, k2) == k1[1] > k2[1] \/ (k1[1] = k2[1] /\ k1[2] >= k2[2])

\* the key of list.sort for the video list ("video") or the audio list
KeyOf(which, x) == IF which = "video" THEN VideoKey(x) ELSE AudioKey(x)

RECURSIVE InsertDesc(_, _, _)
\* x placed after every element of the sorted list whose key is >= its own
InsertDesc(sorted, x, which) ==
    IF sorted = << >> THEN <<x>>
    ELSE IF KeyGeq(KeyOf(which, sorted[1]), KeyOf(which, x))
         THEN <<sorted[1]>> \o InsertDesc(Tail(sorted), x, which)
         ELSE <<x>> \o sorted

RECURSIVE SortDesc(_, _)
\* list.sort(key=..., reverse=True): stable, descending
SortDesc(list, which) ==
    IF list = << >> THEN << >>
    ELSE InsertDesc(SortDesc(SubSeq(list, 1, Len(list) - 1), which),
                    list[Len(list)], which)

Json(status, body) == [status |-> status, body |-> body]

PlaylistBody(title) ==
    [title |-> title, is_playlist |-> TRUE, video_formats |-> << >>,
     audio_formats |-> << >>]

\* truth value of an optional list ("if data.get(k)")
Truthy(x) == x # None /\ x[1] # << >>

\* "not data" for the parsed JSON object (None, or the empty object)
NotData(data) ==
    \/ data = None
    \/ data[1].title = None /\ data[1].formats = None /\ data[1].entries = None

\* "not data or not data.get('formats')" (app.py 90, 101)
NoFormats(data) == NotData(data) \/ ~Truthy(data[1].formats)

\* fetch_formats_for, given what run_cmd_once returned: (data, error)
fetch_formats_for(r) ==
    LET raw_json == OrText(StripText(r.stdout), StripText(r.stderr))
    IN  IF raw_json.kind = "empty"
        THEN [data |-> None,
              error |-> Some(<<"No output from yt-dlp (exit", ToString(r.returncode), ")">>)]
        ELSE IF raw_json.kind = "json"
        THEN [data |-> raw_json.data, error |-> None]
        ELSE [data |-> None, error |-> Some(<<"Invalid JSON from yt-dlp:", raw_json.msg>>)]

\* the url get_formats_api works on (app.py 61-64): None, or the url
RequestUrl(req) ==
    IF req.args.url # None /\ req.args.url # Some(<< >>) THEN req.args.url
    ELSE IF req.is_json
    THEN (IF req.json = None THEN None ELSE req.json[1].url)
    ELSE req.args.url

\* "if not url" (app.py 65)
NoUrl(url) == url = None \/ url = Some(<< >>)

\* app.py 101-134: the response once data and error are settled
FormatsResponse(f) ==
    IF NoFormats(f.data)
    THEN Json(404, [error |-> IF f.error # None THEN f.error[1] ELSE <<"No formats found">>])
    ELSE LET data == f.data[1]
         IN  Json(200,
                  [title |-> IF data.title = None THEN "video" ELSE data.title[1],
                   is_playlist |-> FALSE,
                   video_formats |-> SortDesc(VideoItems(data.formats[1]), "video"),
                   audio_formats |-> SortDesc(AudioItems(data.formats[1]), "audio")])

\* the unhandled exception leaving the view function
Raised500(r) == Json(500, [error |-> <<r.raised>>])

\* the JSON objects the tool may print
Datas ==
    { [title |-> Some("T"), formats |-> Some(fs), entries |-> None] :
          fs \in SeqsUpTo(FormatPool, MaxFormats) }
    \cup
    { [title |-> Some("PL"), formats |-> None, entries |-> Some(<<"e1">>)],
      [title |-> None, formats |-> None, entries |-> Some(<<"e1">>)],
      [title |-> None, formats |-> None, entries |-> None],
      [title |-> Some("A/B: c"),
       formats |-> Some(<<CHOOSE f \in FormatPool : f.format_id = "137",
                         CHOOSE f \in FormatPool : f.format_id = "140">>),
       entries |-> Some(<<"e1">>)] }

\* what the child of run_cmd_once may do: stdout, stderr, exit code
ProcResults ==
    { [stdout |-> Text("json", "", Some(d)), stderr |-> EmptyText, returncode |-> 0] :
          d \in Datas }
    \cup
    { [stdout |-> EmptyText, stderr |-> Text("plain", "ERROR: Unsupported URL", None),
       returncode |-> 1],
      [stdout |-> Text("ws", "", None), stderr |-> Text("ws", "", None), returncode |-> 1],
      [stdout |-> EmptyText, stderr |-> EmptyText, returncode |-> 0] }

NoProc == [stdout |-> EmptyText, stderr |-> EmptyText, returncode |-> -1]

\* the children possible for a launch outcome
ProcsFor(outcome) == IF outcome = "ok" THEN ProcResults ELSE {NoProc}

\* the handler get_formats_api()
GetFormats(req) ==
    LET url == RequestUrl(req)
    IN  /\ handler = "idle"
        /\ handler' = "get_formats"
        /\ request' = req
        /\ IF NoUrl(url)
           THEN /\ response' = Json400("Missing url")
                /\ UNCHANGED <<spawned, once>>
           ELSE IF is_probably_playlist(url[1])
           THEN /\ response' = Json(200, PlaylistBody("Playlist"))
                /\ UNCHANGED <<spawned, once>>
           ELSE \E o1 \in LaunchOutcomes : \E p1 \in ProcsFor(o1) :
                LET argv1 == <<YT_DLP, <<"-J">>, <<"--no-playlist">>, url[1]>>
                    argv2 == <<YT_DLP, <<"-J">>, url[1]>>
                    r1 == run_cmd_once(argv1, o1, p1)
                    f1 == fetch_formats_for(r1)
                IN  IF r1.raised # "none"
                    THEN /\ response' = Raised500(r1)
                         /\ spawned' = Append(spawned, Call(argv1, o1))
                         /\ once' = Append(once, r1)
                    ELSE IF ~NoFormats(f1.data)
                    THEN /\ response' = FormatsResponse(f1)
                         /\ spawned' = Append(spawned, Call(argv1, o1))
                         /\ once' = Append(once, r1)
                    ELSE \E o2 \in LaunchOutcomes : \E p2 \in ProcsFor(o2) :
                         LET r2 == run_cmd_once(argv2, o2, p2)
                             f2 == fetch_formats_for(r2)
                         IN  /\ spawned' = spawned \o <<Call(argv1, o1), Call(argv2, o2)>>
                             /\ once' = once \o <<r1, r2>>
                             /\ response' =
                                  IF r2.raised # "none" THEN Raised500(r2)
                                  ELSE IF /\ ~NotData(f2.data)
                                          /\ Truthy(f2.data[1].entries)
                                          /\ ~Truthy(f2.data[1].formats)
                                  THEN Json(200, PlaylistBody(
                                           IF f2.data[1].title = None THEN "Playlist"
                                           ELSE f2.data[1].title[1]))
                                  ELSE FormatsResponse(f2)
        /\ UNCHANGED dirs
        /\ UNCHANGED <<streamVars, cliVars>>

-----------------------------------------------------------------------------
(* The interactive flow (cli.py) *)

video_file == "video_temp.mp4"
audio_file == "audio_temp.m4a"

\* safe_filename(name) on the titles that occur in Datas
safe_filename(name) ==
    CASE name = "A/B: c" -> "AB c"
      [] OTHER -> name

RECURSIVE CliVideos(_)
\* the list video_formats after the loop of cli.py 44-48
CliVideos(formats) ==
    IF formats = << >> THEN << >>
    ELSE (IF IsVideoOnly(formats[1]) THEN <<formats[1]>> ELSE << >>)
         \o CliVideos(Tail(formats))

RECURSIVE CliAudios(_)
\* the list audio_formats after the loop of cli.py 44-48
CliAudios(formats) ==
    IF formats = << >> THEN << >>
    ELSE (IF ~IsVideoOnly(formats[1]) /\ IsAudioOnly(formats[1])
          THEN <<formats[1]>> ELSE << >>)
         \o CliAudios(Tail(formats))

\* run_cmd(cmd): "exit" (sys.exit(1)), "raise" (another OSError leaves it),
\* "None" (non-zero exit code) or "stdout"
run_cmd(outcome, returncode) ==
    IF outcome = "FileNotFoundError" THEN "exit"
    ELSE IF outcome # "ok" THEN "raise"
    ELSE IF returncode # 0 THEN "None"
    ELSE "stdout"

\* get_formats(url) of cli.py given the child's result: (title, videos, audios),
\* None for (None, None, None)
cli_get_formats(proc) ==
    IF proc.stdout.kind # "json" THEN None
    ELSE LET data == proc.stdout.data[1]
             formats == IF data.formats = None THEN << >> ELSE data.formats[1]
         IN  Some([title |-> IF data.title = None THEN "video" ELSE data.title[1],
                   videos |-> CliVideos(formats),
                   audios |-> CliAudios(formats)])

NoArgs == [url |-> << >>, video_fmt |-> "", audio_fmt |-> "", output_name |-> ""]

TempFiles == {video_file, audio_file}

\* Cleanup that stops after the first file
CleanupVideoOnly(fs) == fs \ {video_file}

\* the finally block of cli.py 93-97
Cleanup(fs) == fs \ {f \in {video_file, audio_file} : f \in fs}

\* __main__ of cli.py for a single item, up to the call of download_and_merge;
\* stale: the temporary files already present in the working directory;
\* outcome, proc: what becomes of the yt-dlp -J child
CliMain(url, stale, outcome, proc) ==
    LET r == run_cmd(outcome, proc.returncode)
        got == IF r = "stdout" THEN cli_get_formats(proc) ELSE None
    IN  /\ handler' = "cli"
        /\ files' = stale
        /\ spawned' = Append(spawned,
                 Call(<<YT_DLP, <<"-J">>, <<"--no-playlist">>, url>>, outcome))
        /\ IF r \in {"exit", "raise"}
           THEN /\ cpc' = "exited"
                /\ cliResult' = IF r = "exit" THEN "exit 1" ELSE "traceback"
                /\ UNCHANGED cliArgs
           ELSE IF got = None \/ got[1].videos = << >> \/ got[1].audios = << >>
           THEN /\ cpc' = "exited"
                /\ cliResult' = "exit 1"
                /\ UNCHANGED cliArgs
           ELSE \E choice \in 1..Len(got[1].videos) :
                /\ cpc' = "dm_video"
                /\ cliArgs' = [url |-> url,
                               video_fmt |-> got[1].videos[choice].format_id,
                               audio_fmt |-> got[1].audios[Len(got[1].audios)].format_id,
                               output_name |-> safe_filename(got[1].title) \o ".mp4"]
                /\ UNCHANGED cliResult
        /\ UNCHANGED <<request, response, once, dirs>>
        /\ UNCHANGED streamVars

\* the interactive program is started on a url
CliStart(url) ==
    /\ handler = "idle"
    /\ \E stale \in SUBSET TempFiles, outcome \in LaunchOutcomes :
          \E proc \in ProcsFor(outcome) : CliMain(url, stale, outcome, proc)

\* one run_cmd step of download_and_merge (cli.py 79, 83, 87) followed, when
\* the function is left, by its finally block.  argv is the command, target
\* the file the child writes, wrote whether it wrote it, next the position
\* after a zero exit code.
DmStep(argv, target, outcome, returncode, wrote, next) ==
    LET r == run_cmd(outcome, returncode)
        after == IF outcome = "ok" /\ wrote THEN files \cup {target} ELSE files
    IN  /\ spawned' = Append(spawned, Call(argv, outcome))
        /\ IF r = "exit"
           THEN /\ files' = Cleanup(after)
                /\ cpc' = "exited"
                /\ cliResult' = "exit 1"
           ELSE IF r = "raise"
           THEN /\ files' = Cleanup(after)
                /\ cpc' = "exited"
                /\ cliResult' = "traceback"
           ELSE IF r = "None"
           THEN /\ files' = Cleanup(after)
                /\ cpc' = "returned"
                /\ cliResult' = "False"
           ELSE IF next = "returned"
           THEN /\ files' = Cleanup(after)
                /\ cpc' = "returned"
                /\ cliResult' = "True"
           ELSE /\ files' = after
                /\ cpc' = next
                /\ UNCHANGED cliResult
        /\ UNCHANGED <<handler, request, response, once, dirs, cliArgs>>
        /\ UNCHANGED streamVars

\* whether the child wrote its file: it did if it exited with 0
Wrote(returncode) == IF returncode = 0 THEN {TRUE} ELSE BOOLEAN

\* cli.py 78-80
DmVideo(outcome, returncode, wrote) ==
    /\ cpc = "dm_video"
    /\ DmStep(<<YT_DLP, <<"-f">>, <<cliArgs.video_fmt>>, <<"-o">>, <<video_file>>,
                cliArgs.url>>,
              video_file, outcome, returncode, wrote, "dm_audio")

\* cli.py 82-84
DmAudio(outcome, returncode, wrote) ==
    /\ cpc = "dm_audio"
    /\ DmStep(<<YT_DLP, <<"-f">>, <<cliArgs.audio_fmt>>, <<"-o">>, <<audio_file>>,
                cliArgs.url>>,
              audio_file, outcome, returncode, wrote, "dm_merge")

\* cli.py 86-91
DmMerge(outcome, returncode, wrote) ==
    /\ cpc = "dm_merge"
    /\ DmStep(<<FFMPEG, <<"-y">>, <<"-i">>, <<video_file>>, <<"-i">>, <<audio_file>>,
                <<"-c">>, <<"copy">>, <<cliArgs.output_name>>>>,
              cliArgs.output_name, outcome, returncode, wrote, "returned")

-----------------------------------------------------------------------------
(* Inputs *)

PlainUrl == <<"https://yt/watch?v=a">>

Args(url, quality, download_path, is_playlist) ==
    [url |-> url, quality |-> quality, download_path |-> download_path,
     is_playlist |-> is_playlist]

\* query strings of /progress
ProgressRequests ==
    { Args(None, Some(<<"137">>), None, None),
      Args(Some(<<WS>>), Some(<<"137">>), None, None),
      Args(None, None, None, Some(<<"TRUE">>)),
      Args(Some(PlainUrl), None, None, None),
      Args(Some(PlainUrl), Some(<<WS>>), Some(<<"dl">>), None),
      Args(Some(<<WS>> \o PlainUrl \o <<WS>>), Some(<<"137">>), None, Some(<<"false">>)),
      Args(Some(PlainUrl), Some(<<WS, "137", WS>>), None, None),
      Args(Some(PlainUrl), Some(<<WS, "137", "+", "140">>), None, None),
      Args(Some(PlainUrl), None, None, Some(<<"TRUE">>)),
      Args(Some(PlainUrl \o <<"&", "LIST=", "PL1">>), None, Some(<<"my%20dl", WS>>), None) }

GetReq(url, is_json, json) ==
    [args |-> [url |-> url], is_json |-> is_json, json |-> json]

\* requests to /get_formats: query string and JSON body
GetFormatsRequests ==
    { GetReq(None, FALSE, None),
      GetReq(Some(<< >>), FALSE, None),
      GetReq(None, TRUE, None),
      GetReq(None, TRUE, Some([url |-> None])),
      GetReq(None, TRUE, Some([url |-> Some(PlainUrl)])),
      GetReq(Some(PlainUrl), FALSE, None),
      GetReq(Some(PlainUrl), TRUE, Some([url |-> Some(<<"https://yt", "/playlist">>)])),
      GetReq(Some(PlainUrl \o <<"&", "LIST=", "PL1">>), FALSE, None),
      GetReq(Some(<<"https://yt", "/Playlist", "?", "list=", "PL1">>), FALSE, None),
      GetReq(Some(<< >>), TRUE, Some([url |-> Some(<<"https://yt", "/PLAYLIST">>)])) }

-----------------------------------------------------------------------------
(* Specification *)

Init ==
    /\ handler = "idle"
    /\ request = << >>
    /\ response = << >>
    /\ spawned = << >>
    /\ once = << >>
    /\ dirs = {}
    /\ spc = "none"
    /\ cmd = << >>
    /\ procState = "none"
    /\ procExit = -1
    /\ ret = -1
    /\ output = << >>
    /\ events = << >>
    /\ cpc = "none"
    /\ cliArgs = NoArgs
    /\ files = {}
    /\ cliResult = ""

Next ==
    \/ \E req \in GetFormatsRequests : GetFormats(req)
    \/ \E args \in ProgressRequests : Progress(args)
    \/ StreamStart
    \/ \E outcome \in LaunchOutcomes : Launch(outcome)
    \/ \E raw \in Lines : ReadLine(raw)
    \/ \E code \in ExitCodes : ProcEnd(code)
    \/ StreamEnd
    \/ Disconnect
    \/ \E code \in ExitCodes : OrphanEnd(code)
    \/ CliStart(PlainUrl)
    \/ \E outcome \in LaunchOutcomes, code \in ExitCodes :
          \E wrote \in Wrote(code) : DmVideo(outcome, code, wrote)
    \/ \E outcome \in LaunchOutcomes, code \in ExitCodes :
          \E wrote \in Wrote(code) : DmAudio(outcome, code, wrote)
    \/ \E outcome \in LaunchOutcomes, code \in ExitCodes :
          \E wrote \in Wrote(code) : DmMerge(outcome, code, wrote)

Spec == Init /\ [][Next]_vars

-----------------------------------------------------------------------------
(* Properties of the /progress stream *)

Last(q) == q[Len(q)]

\* an event that reports the end of the stream: finished, or an error that
\* is not the image of an "ERROR:" line of the child
TerminalEvent(e) ==
    \/ e.status = "finished"
    \/ e.status = "error" /\ ~StartsWith(e.message, <<"ERROR:">>)

NumTerminal(evs) == Cardinality({i \in DOMAIN evs : TerminalEvent(evs[i])})

\* C1: a stream never holds two terminal events; once proc.wait() returned
\* 0 the stream holds exactly one terminal event, it is its last event and
\* it is finished; once proc.wait() returned a non-zero code the stream
\* holds exactly one terminal event, it is its last event and it is the
\* error event naming that code.
C1_ExitReportedOnce ==
    /\ NumTerminal(events) <= 1
    /\ ret = 0 =>
          /\ NumTerminal(events) = 1
          /\ Last(events).status = "finished"
    /\ ret > 0 =>
          /\ NumTerminal(events) = 1
          /\ Last(events).status = "error"
          /\ Last(events).message = <<"yt-dlp exited with code", ToString(ret)>>

\* a stream that ended after an "ERROR:" line and a non-zero exit code
C1_Witness ==
    /\ spc = "done"
    /\ ret > 0
    /\ \E i \in 1..(Len(events) - 1) : events[i].status = "error"

\* C2 (state part): the first event of a stream is the starting event and
\* no later event is; no launch is attempted before it was emitted.
C2_StartingFirst ==
    /\ events # << >> => events[1].status = "starting"
    /\ \A i \in 2..Len(events) : events[i].status # "starting"
    /\ (handler = "progress" /\ spawned # << >>) => events # << >>
    /\ procState # "none" => events # << >>

\* C2 (step part): an event that is neither starting nor terminal is emitted
\* only by a step taken while the child runs; after the terminal event the
\* only step left closes the stream, and no event is added.
C2_Steps ==
    /\ (events' # events /\ ~TerminalEvent(Last(events'))
            /\ Last(events').status # "starting")
         => procState = "running" /\ procState' = "running"
    /\ NumTerminal(events) >= 1
         => events' = events /\ spc' \in {"done", "closed"}
    /\ spc \in {"done", "closed"} => events' = events

\* C2: the starting event comes first and before the launch, content events
\* only while the child runs, nothing after the terminal event.
C2_Lifecycle == []C2_StartingFirst /\ [][C2_Steps]_vars

\* a stream that emitted starting, two content events and a terminal event
C2_Witness == spc = "done" /\ Len(events) = 4 /\ procState = "exited"

\* the patterns of the output parser in their order of precedence
Patterns ==
    <<"downloading", "destination", "already", "merging", "postprocess", "info", "error">>

\* whether the line (trailing whitespace removed) matches the pattern
Matches(pattern, line) ==
    CASE pattern = "downloading" -> progress_re(line) # None
      [] pattern = "destination" -> StartsWith(line, <<"[download]", WS, "Destination:">>)
      [] pattern = "already" -> Contains(line, "has already been downloaded")
      [] pattern = "merging" -> StartsWith(line, <<"[Merger]">>)
      [] pattern = "postprocess" -> StartsWith(line, <<"[ExtractAudio]">>)
      [] pattern = "info" -> StartsWith(line, <<"[youtube]">>) \/ StartsWith(line, <<"[info]">>)
      [] OTHER -> StartsWith(line, <<"ERROR:">>)

\* the patterns a raw line matches, as indices into Patterns
Matching(raw) == {i \in DOMAIN Patterns : Matches(Patterns[i], RStrip(raw))}

Min(S) == CHOOSE x \in S : \A y \in S : x <= y

RECURSIVE ExpectedStatuses(_)
\* the statuses of the images of the lines: for each line that matches a
\* pattern, the earliest pattern it matches
ExpectedStatuses(lines) ==
    IF lines = << >> THEN << >>
    ELSE (IF Matching(lines[1]) = {} THEN << >>
          ELSE <<Patterns[Min(Matching(lines[1]))]>>)
         \o ExpectedStatuses(Tail(lines))

\* the events between the starting event and the terminal event
ContentEvents(evs) ==
    IF evs = << >> THEN << >>
    ELSE SubSeq(evs, 2, Len(evs) - NumTerminal(evs))

\* C9: the content events of a stream are, in order, the images of the
\* lines read that match a pattern, each under the earliest pattern it
\* matches; a line that matches none adds no event and the stream goes on.
C9_FirstMatchInOrder ==
    /\ [i \in 1..Len(ContentEvents(events)) |-> ContentEvents(events)[i].status]
          = ExpectedStatuses(output)
    /\ \A i \in 1..Len(ContentEvents(events)) : ~TerminalEvent(ContentEvents(events)[i])
    /\ (output # << >> /\ Matching(Last(output)) = {} /\ ret = -1)
          => spc = "reading"

\* a stream that read a line matching two patterns and then a line matching
\* none, and went on to its end
C9_Witness ==
    /\ Len(output) = 2
    /\ Cardinality(Matching(output[1])) >= 2
    /\ Min(Matching(output[1])) = 3
    /\ Matching(output[2]) = {}
    /\ spc = "done"

-----------------------------------------------------------------------------
(* Properties of the request handlers *)

\* the element of argv that follows -f
SelectorOf(argv) == argv[1 + CHOOSE i \in DOMAIN argv : argv[i] = <<"-f">>]

\* a /progress request for a single item: not flagged as a playlist and no
\* playlist marker in its url
SingleItem(args) ==
    /\ args.is_playlist = None \/ args.is_playlist[1] \notin
          {<<"1">>, <<"true">>, <<"TRUE">>, <<"True">>, <<"yes">>, <<"Yes">>}
    /\ args.url # None
    /\ \A i \in DOMAIN args.url[1] : args.url[1][i] \notin
          {"list=", "LIST=", "List=", "/playlist", "/Playlist", "/PLAYLIST"}

\* a stream was opened for a single-item request that carries a quality
SingleItemStream ==
    /\ handler = "progress"
    /\ cmd # << >>
    /\ SingleItem(request)
    /\ request.quality # None /\ request.quality[1] # << >>

\* C4 as stated: the selector after -f is the caller's selector when that
\* contains "+", and the caller's selector followed by "+ba" when not.
C4_SelectorVerbatim ==
    SingleItemStream =>
        LET q == request.quality[1]
        IN  SelectorOf(cmd) = IF Contains(q, "+") THEN q ELSE q \o <<"+", "ba">>

\* C4 amended: the selector after -f is the caller's selector with leading
\* and trailing whitespace removed when that contains "+", and that trimmed
\* selector followed by "+ba" when not; the argv holds one -f, and its
\* selector contains "+".
C4_SelectorTrimmed ==
    SingleItemStream =>
        LET q == Strip(request.quality[1])
        IN  /\ SelectorOf(cmd) = IF Contains(q, "+") THEN q ELSE q \o <<"+", "ba">>
            /\ Cardinality({i \in DOMAIN cmd : cmd[i] = <<"-f">>}) = 1
            /\ Contains(SelectorOf(cmd), "+")

\* a stream opened for a selector without "+" and with surrounding whitespace
C4_Witness ==
    /\ SingleItemStream
    /\ request.quality[1] = <<WS, "137", WS>>
    /\ SelectorOf(cmd) = <<"137", "+", "ba">>
    /\ spawned # << >>

\* the url a /get_formats request carries holds a playlist marker
GetFormatsUrlHasMarker ==
    /\ handler = "get_formats"
    /\ RequestUrl(request) # None
    /\ \E i \in DOMAIN RequestUrl(request)[1] : RequestUrl(request)[1][i] \in
          {"list=", "LIST=", "List=", "/playlist", "/Playlist", "/PLAYLIST"}

\* C5: a /get_formats request whose url holds a playlist marker, in any
\* letter case, is answered with is_playlist true and two empty lists, and
\* no subprocess was started for it.
C5_PlaylistShortCircuit ==
    GetFormatsUrlHasMarker =>
        /\ response.status = 200
        /\ response.body.is_playlist = TRUE
        /\ response.body.video_formats = << >>
        /\ response.body.audio_formats = << >>
        /\ spawned = << >>
        /\ once = << >>

\* a request whose marker is in upper case was answered
C5_Witness ==
    /\ GetFormatsUrlHasMarker
    /\ Contains(RequestUrl(request)[1], "LIST=")
    /\ response.status = 200

\* a /get_formats request with no url in the query string or the JSON body
GetFormatsNoUrl ==
    /\ handler = "get_formats"
    /\ request.args.url \in {None, Some(<< >>)}
    /\ \/ ~request.is_json
       \/ request.json = None
       \/ request.json[1].url \in {None, Some(<< >>)}

\* a /progress request with no url
ProgressNoUrl ==
    /\ handler = "progress"
    /\ request.url = None \/ Strip(request.url[1]) = << >>

\* a /progress request for a single item with no quality
ProgressNoQuality ==
    /\ handler = "progress"
    /\ SingleItem(request)
    /\ request.quality = None \/ Strip(request.quality[1]) = << >>

StreamLaunchFailed ==
    /\ handler = "progress"
    /\ spawned # << >>
    /\ spawned[1].outcome # "ok"

\* C3: when the executable cannot be located or started, the stream is
\* starting followed by one error event and nothing else, and run_cmd_once
\* returns ("", "Command not found: ...", 127) and raises nothing.
C3_LaunchFailureIsOneErrorSignal ==
    /\ StreamLaunchFailed =>
          /\ Len(events) = 2
          /\ events[1].status = "starting"
          /\ events[2].status = "error"
    /\ \A i \in DOMAIN once :
          spawned[i].outcome # "ok" =>
              /\ once[i].raised = "none"
              /\ once[i].stdout = EmptyText
              /\ once[i].stderr.msg = "Command not found: yt-dlp"
              /\ once[i].returncode = 127

\* a descriptor reports the codec
CodecPresent(c) == c # None /\ c # Some("none")

DescOf(id) == CHOOSE f \in FormatPool : f.format_id = id

\* the ids in a list of the response
IdsOf(items) == {items[i].format_id : i \in DOMAIN items}

\* the format lists of a /get_formats response for a single item
FormatsListed ==
    /\ handler = "get_formats"
    /\ response.status = 200
    /\ ~response.body.is_playlist

\* C7: every entry of the video list has a video codec and no audio codec,
\* every entry of the audio list has an audio codec and no video codec, and
\* no entry is in both lists (so muxed and codec-less descriptors are in
\* neither); the same for the formats the interactive flow picks from its
\* two lists.
C7_ListsAreVideoOnlyAndAudioOnly ==
    /\ FormatsListed =>
          /\ \A id \in IdsOf(response.body.video_formats) :
                CodecPresent(DescOf(id).vcodec) /\ ~CodecPresent(DescOf(id).acodec)
          /\ \A id \in IdsOf(response.body.audio_formats) :
                CodecPresent(DescOf(id).acodec) /\ ~CodecPresent(DescOf(id).vcodec)
          /\ IdsOf(response.body.video_formats) \cap IdsOf(response.body.audio_formats) = {}
    /\ cliArgs # NoArgs =>
          /\ CodecPresent(DescOf(cliArgs.video_fmt).vcodec)
          /\ ~CodecPresent(DescOf(cliArgs.video_fmt).acodec)
          /\ CodecPresent(DescOf(cliArgs.audio_fmt).acodec)
          /\ ~CodecPresent(DescOf(cliArgs.audio_fmt).vcodec)

\* download_and_merge was called and has ended
DownloadAndMergeEnded == cliArgs # NoArgs /\ cpc \in {"returned", "exited"}

\* C8: once download_and_merge has ended, on any path, neither temporary
\* file is in the working directory.
C8_TemporariesRemoved ==
    DownloadAndMergeEnded => files \cap {video_file, audio_file} = {}

\* both downloads succeeded and the merge tool was missing
C8_Witness ==
    /\ DownloadAndMergeEnded
    /\ Len(spawned) = 4
    /\ spawned[4].outcome = "FileNotFoundError"
    /\ cliResult = "exit 1"

\* C10: the child of a stream whose consumer went away while it ran does
\* not run on to complete its download.
C10_NoOrphanCompletes ==
    ~(spc = "closed" /\ ret = -1 /\ procState = "exited" /\ procExit = 0)

=============================================================================
